---- MODULE Spec2Model ----
(***************************************************************************)
(* Model of wowprogress-scrapper/main.py: the tier crawler, the checkpoint *)
(* files, the orchestrator's merge and the language filter.                *)
(*                                                                         *)
(* Text that the code parses (realm text, language text, dictionary keys)  *)
(* is a sequence of one-character strings, so that split, strip, upper and *)
(* key concatenation are computed, not assumed.                            *)
(***************************************************************************)
EXTENDS Integers, Sequences, FiniteSets, TLC

VARIABLES
    run,              \* number of invocations of main() started so far
    pc,               \* position of the running process ("idle": no process)
    progressFile,     \* scraper_state/tier_progress.json
    guildsFile,       \* scraper_state/guilds_with_mythic.json
    finalFile,        \* finnish_guilds.json
    tier_progress,    \* main(): dict loaded at startup
    all_guilds_data,  \* main(): dict loaded at startup, updated per tier
    unique_guilds,    \* main(): insertion-ordered dict key -> guild
    tier,             \* main(): loop variable
    page,             \* scrape_tier_guilds(): current offset
    all_guilds,       \* scrape_tier_guilds(): accumulator
    all_unique_guilds,\* main(): list(unique_guilds.values())
    finnish_guilds,   \* filter_finnish_guilds(): growing result
    idx,              \* filter_finnish_guilds(): position in the candidates
    start_page,       \* history: start offset of the current crawl run
    stopped,          \* history: why the current crawl run ended
    requested,        \* history: offsets requested in the current crawl run
    handled,          \* history: tiers handled in this invocation, in order
    failedAt,         \* history: per tier, the failed fetch (offset, invocation)
    failures,         \* history: page-level fetch failures so far
    classified,       \* history: the language returned for each candidate
    calc,             \* a function applied on its own: its input and result
    unparsable        \* the state files whose text json.load rejects

vars == <<run, pc, progressFile, guildsFile, finalFile, tier_progress,
          all_guilds_data, unique_guilds, tier, page, all_guilds,
          all_unique_guilds, finnish_guilds, idx, start_page, stopped,
          requested, handled, failedAt, failures, classified, calc,
          unparsable>>

\* every variable but calc
procVars == <<run, pc, progressFile, guildsFile, finalFile, tier_progress,
              all_guilds_data, unique_guilds, tier, page, all_guilds,
              all_unique_guilds, finnish_guilds, idx, start_page, stopped,
              requested, handled, failedAt, failures, classified,
              unparsable>>

-----------------------------------------------------------------------------
(* Bounds of the model and constants of the program *)

MaxRuns == 2
MaxFailures == 1

START_TIER == 22
END_TIER == 35
FIRST_PAGE == -1
RETRY_COUNT == 3

Tiers == START_TIER..END_TIER

\* Python's None; text is a sequence of one-character strings, so this value
\* is no text.
None == <<"None">>

-----------------------------------------------------------------------------
(* Text helpers: Python str methods on sequences of characters *)

\* the whitespace str.strip() removes, as far as the texts here hold it
IsSpace(c) == c \in {" ", "\n", "\t"}

RECURSIVE lstrip(_)
lstrip(s) == IF s # <<>> /\ IsSpace(Head(s)) THEN lstrip(Tail(s)) ELSE s

RECURSIVE rstrip(_)
rstrip(s) ==
    IF s # <<>> /\ IsSpace(s[Len(s)])
    THEN rstrip(SubSeq(s, 1, Len(s) - 1))
    ELSE s

strip(s) == rstrip(lstrip(s))

Contains(s, c) == \E i \in 1..Len(s) : s[i] = c

FirstIndex(s, c) == CHOOSE i \in 1..Len(s) :
                        s[i] = c /\ \A j \in 1..(i - 1) : s[j] # c

\* s.split(c, 1) for a text that contains c
Split1(s, c) == <<SubSeq(s, 1, FirstIndex(s, c) - 1),
                  SubSeq(s, FirstIndex(s, c) + 1, Len(s))>>

HasSubstr(s, sub) ==
    \E i \in 1..(Len(s) - Len(sub) + 1) : SubSeq(s, i, i + Len(sub) - 1) = sub

UpperChar(c) ==
    CASE c = "e" -> "E" [] c = "u" -> "U" [] c = "a" -> "A" [] c = "b" -> "B"
      [] c = "c" -> "C" [] c = "f" -> "F" [] c = "i" -> "I" [] c = "n" -> "N"
      [] c = "s" -> "S" [] c = "h" -> "H" [] c = "w" -> "W" [] c = "d" -> "D"
      [] OTHER -> c

LowerChar(c) ==
    CASE c = "E" -> "e" [] c = "U" -> "u" [] c = "A" -> "a" [] c = "B" -> "b"
      [] c = "C" -> "c" [] c = "F" -> "f" [] c = "I" -> "i" [] c = "N" -> "n"
      [] c = "S" -> "s" [] c = "H" -> "h" [] c = "W" -> "w" [] c = "D" -> "d"
      [] OTHER -> c

upper(s) == [i \in 1..Len(s) |-> UpperChar(s[i])]
lower(s) == [i \in 1..Len(s) |-> LowerChar(s[i])]

RECURSIVE Flatten(_)
Flatten(ss) == IF ss = <<>> THEN <<>> ELSE Head(ss) \o Flatten(Tail(ss))

-----------------------------------------------------------------------------
(* The site: the pages the fetcher returns.  A listing page is its table   *)
(* rows and its ratingProgress spans.  A row says whether it has a guild   *)
(* anchor and holds the text of the anchor's nobr (None: no nobr), the     *)
(* anchor's href and the text of its realm anchor (None: no such anchor).  *)
(* A span is the text of its first b child (None: no b) and its own text.  *)

Row(name, href, realm) ==
    [guild |-> TRUE, nobr |-> name, href |-> href, realm |-> realm]

rowAB   == Row(<<"a", "b">>, "/g1", <<"E", "U", "-", "c">>)
rowABx  == Row(<<" ", "a", "b">>, "/g1x", <<"e", "u", " ", "-", " ", "c">>)
rowPipe == Row(<<"a", "|", "b">>, "/g2", <<"E", "U", "-", "c">>)
rowRlm  == Row(<<"a">>, "/g3", <<"E", "U", "-", "b", "|", "c">>)
rowUS   == Row(<<"b">>, "/g4", <<"U", "S", "-", "c">>)
rowHyph == Row(<<"c">>, "/g5", <<"E", "U", "-", "a", "-", "b", " ">>)
rowNoA  == [guild |-> FALSE, nobr |-> None, href |-> "",
            realm |-> <<"E", "U", "-", "c">>]
rowNoN  == Row(None, "/g9", <<"E", "U", "-", "c">>)
rowEmpty == Row(<<"b">>, "/g8", <<"E", "U", "-", "a">>)
rowNoR  == Row(<<"b">>, "/g6", None)
rowNoH  == Row(<<"b">>, "/g7", <<"E", "U", " ", "c">>)

Span(bold, text) == [b |-> bold, text |-> text]

spanM   == Span(<<"8", " ", "(", "M", ")">>, <<"8", " ", "(", "M", ")">>)
spanH   == Span(<<"8", " ", "(", "H", ")">>, <<"8", " ", "(", "H", ")">>)
spanNoB == Span(None, <<"8", " ", "(", "M", ")">>)

Page(rows, spans) == [rows |-> rows, spans |-> spans]

EmptyPage == Page(<<>>, <<>>)

\* The listing page at offset p of tier t.
SitePage(t, p) ==
    CASE t = 35 /\ p = -1 -> Page(<<rowAB, rowUS>>, <<spanM, spanM>>)
      [] t = 35 /\ p = 0  -> Page(<<rowNoA, rowPipe>>, <<spanH, spanM>>)
      [] t = 35 /\ p = 1  -> Page(<<rowHyph>>, <<spanM, spanH>>)
      [] t = 34 /\ p = -1 -> Page(<<rowRlm, rowNoR>>, <<spanM>>)
      [] t = 34 /\ p = 0  -> Page(<<rowNoH, rowNoN, rowEmpty>>, <<>>)
      [] t = 28 /\ p = -1 -> Page(<<rowABx>>, <<spanNoB>>)
      [] t = 22 /\ p = -1 -> Page(<<rowHyph>>, <<spanM>>)
      [] t = 22 /\ p = 0  -> Page(<<rowABx>>, <<spanH>>)
      [] OTHER -> EmptyPage

\* The text of the language div of a guild's detail page (None: no div).
SiteLanguage(url) ==
    CASE url = "/g1"  -> <<"L", ":", " ", "F", "i", "n", "n", "i", "s", "h">>
      [] url = "/g1x" -> <<"L", ":", "f", "i", "n", "n", "i", "s", "h", " ">>
      [] url = "/g2"  -> <<"L", ":", " ", "S", "w", "e", "d", "i", "s", "h">>
      [] url = "/g3"  -> <<"F", "i", "n", "n", "i", "s", "h">>
      [] url = "/g5"  -> <<"L", ":", "F", "I", "N", "N", "I", "S", "H">>
      [] url = "/g8"  -> <<"L", ":", " ", " ">>
      [] OTHER -> None

-----------------------------------------------------------------------------
(* Checkpoint store *)

\* A file that does not exist.
NoFile == [exists |-> FALSE, data |-> <<>>]

\* a load that starts from an empty dict whatever the file holds
load_state_fresh(file) == <<>>

load_state(file) == IF file.exists THEN file.data ELSE <<>>

save_state(data) == [exists |-> TRUE, data |-> data]

\* a dict that holds the entry set and nothing else
DictSetAlone(d, k, v) == [x \in {k} |-> v]

\* d[k] = v on a dict (a function on its keys; <<>> is the empty dict)
DictSet(d, k, v) == [x \in (DOMAIN d) \cup {k} |-> IF x = k THEN v ELSE d[x]]

\* str(tier)
tier_key(t) == ToString(t)

-----------------------------------------------------------------------------
(* Page Fetcher: the outcomes of the attempts are "ok", "403" (HTTP 403),  *)
(* "http" (another HTTP error) and "error" (any other exception).          *)

AttemptOutcomes == {"ok", "403", "http", "error"}

Outcomes == [1..RETRY_COUNT -> AttemptOutcomes]

\* The sleep after failed attempt number a (0-based), 0 when there is none.
BackoffDelay(outcome, a) ==
    CASE outcome = "403" -> 3 * (a + 1)
      [] outcome = "http" -> 0
      [] OTHER -> IF a < RETRY_COUNT - 1 THEN 2 * (a + 1) ELSE 0

\* a fetcher that gives up at the first HTTP error other than 403
RECURSIVE FetchLoopGivesUp(_, _, _)
FetchLoopGivesUp(outcomes, a, delays) ==
    IF a >= RETRY_COUNT
    THEN [ok |-> FALSE, attempts |-> a, delays |-> delays]
    ELSE IF outcomes[a + 1] = "ok"
    THEN [ok |-> TRUE, attempts |-> a + 1, delays |-> delays]
    ELSE IF outcomes[a + 1] = "http"
    THEN [ok |-> FALSE, attempts |-> a + 1, delays |-> delays]
    ELSE FetchLoopGivesUp(outcomes, a + 1,
                          Append(delays, BackoffDelay(outcomes[a + 1], a)))

RECURSIVE FetchLoop(_, _, _)
FetchLoop(outcomes, a, delays) ==
    IF a >= RETRY_COUNT
    THEN [ok |-> FALSE, attempts |-> a, delays |-> delays]
    ELSE IF outcomes[a + 1] = "ok"
    THEN [ok |-> TRUE, attempts |-> a + 1, delays |-> delays]
    ELSE IF outcomes[a + 1] # "403" /\ a = RETRY_COUNT - 1
    THEN [ok |-> FALSE, attempts |-> a + 1, delays |-> delays]
    ELSE FetchLoop(outcomes, a + 1,
                   Append(delays, BackoffDelay(outcomes[a + 1], a)))

fetch_page(outcomes) == FetchLoop(outcomes, 0, <<>>)

-----------------------------------------------------------------------------
(* main_cloudscraper.py: every failure of an attempt is handled alike.     *)

RECURSIVE FetchLoopCloudscraper(_, _, _)
FetchLoopCloudscraper(outcomes, a, delays) ==
    IF a >= RETRY_COUNT
    THEN [ok |-> FALSE, attempts |-> a, delays |-> delays]
    ELSE IF outcomes[a + 1] = "ok"
    THEN [ok |-> TRUE, attempts |-> a + 1, delays |-> delays]
    ELSE IF a < RETRY_COUNT - 1
    THEN FetchLoopCloudscraper(outcomes, a + 1, Append(delays, 2 * (a + 1)))
    ELSE [ok |-> FALSE, attempts |-> a + 1, delays |-> delays]

fetch_page_cloudscraper(outcomes) == FetchLoopCloudscraper(outcomes, 0, <<>>)

-----------------------------------------------------------------------------
(* Termination Oracle and Row Extractor *)

\* an oracle that looks for the marker in every span of the page
has_mythic_anywhere(soup) ==
    \E i \in 1..Len(soup.spans) :
        /\ soup.spans[i].b # None
        /\ HasSubstr(soup.spans[i].b, <<"(", "M", ")">>)

has_mythic_progress(soup) ==
    IF soup.spans = <<>> THEN FALSE
    ELSE LET last_progress == soup.spans[Len(soup.spans)].b
         IN  IF last_progress # None
             THEN HasSubstr(last_progress, <<"(", "M", ")">>)
             ELSE FALSE

\* main_cloudscraper.py: the heroic variant reads the text of the last span.
has_heroic_progress(soup) ==
    IF soup.spans = <<>> THEN FALSE
    ELSE HasSubstr(soup.spans[Len(soup.spans)].text, <<"(", "H", ")">>)

\* The records one row contributes: none or one.
ExtractRow(row) ==
    IF ~row.guild THEN <<>>
    ELSE IF row.nobr = None THEN <<>>
    ELSE IF row.realm = None THEN <<>>
    ELSE LET guild_name == strip(row.nobr)
             realm_text == strip(row.realm)
         IN  IF ~Contains(realm_text, "-") THEN <<>>
             ELSE LET parts  == Split1(realm_text, "-")
                      region == strip(parts[1])
                      realm  == strip(parts[2])
                  IN  IF upper(region) = <<"E", "U">>
                      THEN <<[name |-> guild_name, realm |-> realm,
                              region |-> region, url |-> row.href]>>
                      ELSE <<>>

\* an extractor that leaves its loop at the first row it cannot use
RECURSIVE ExtractUntilSkip(_)
ExtractUntilSkip(rows) ==
    IF rows = <<>> \/ ExtractRow(Head(rows)) = <<>> THEN <<>>
    ELSE ExtractRow(Head(rows)) \o ExtractUntilSkip(Tail(rows))

extract_guilds_breaking(soup) == ExtractUntilSkip(soup.rows)

extract_guilds_from_page(soup) ==
    Flatten([i \in 1..Len(soup.rows) |-> ExtractRow(soup.rows[i])])

-----------------------------------------------------------------------------
(* Language Filter *)

\* What fetch_page hands to get_guild_language: no page, or a page with
\* the text of its language div (None: no div).
DetailPage(ok, lang_text) == [ok |-> ok, language |-> lang_text]

\* a classifier that splits the field at every colon: split(':')[1]
classify_split_all(soup) ==
    IF ~soup.ok THEN None
    ELSE LET lang_text == soup.language
         IN  IF lang_text # None /\ Contains(lang_text, ":")
             THEN LET rest == Split1(lang_text, ":")[2]
                  IN  strip(IF Contains(rest, ":")
                            THEN Split1(rest, ":")[1]
                            ELSE rest)
             ELSE None

\* get_guild_language, from the page on
classify(soup) ==
    IF ~soup.ok THEN None
    ELSE LET lang_text == soup.language
         IN  IF lang_text # None /\ Contains(lang_text, ":")
             THEN strip(Split1(lang_text, ":")[2])
             ELSE None

get_guild_language(guild_url, fetched) ==
    classify(DetailPage(fetched.ok, SiteLanguage(guild_url)))

\* a filter that compares the language as it is written
IsFinnishExact(language) ==
    language = <<"F", "i", "n", "n", "i", "s", "h">>

IsFinnish(language) ==
    /\ language # None
    /\ language # <<>>
    /\ lower(language) = <<"f", "i", "n", "n", "i", "s", "h">>

FinalRecord(guild) ==
    [name |-> guild.name, realm |-> guild.realm, region |-> guild.region]

-----------------------------------------------------------------------------
(* Orchestrator: the merge into unique_guilds, an insertion-ordered dict   *)
(* kept as a sequence of key/value entries.                                *)

GuildKey(guild) == guild.name \o <<"|">> \o guild.realm

OrderedSet(od, k, v) ==
    IF \E i \in 1..Len(od) : od[i].key = k
    THEN [i \in 1..Len(od) |->
             IF od[i].key = k THEN [key |-> k, value |-> v] ELSE od[i]]
    ELSE Append(od, [key |-> k, value |-> v])

RECURSIVE MergeGuilds(_, _)
MergeGuilds(od, guilds) ==
    IF guilds = <<>> THEN od
    ELSE MergeGuilds(OrderedSet(od, GuildKey(Head(guilds)), Head(guilds)),
                     Tail(guilds))

DictValues(od) == [i \in 1..Len(od) |-> od[i].value]

\* range(END_TIER, START_TIER - 1, -1): the tier after t, and exhaustion
NextTier(t) == t - 1

\* the loop with its lower end exclusive
LoopDoneEarly(t) == t <= START_TIER

LoopDone(t) == t < START_TIER

\* the completed flag of the entry not consulted: every tier is crawled
IsCompletedIgnored(data, t) == FALSE

IsCompleted(data, t) ==
    /\ tier_key(t) \in DOMAIN data
    /\ data[tier_key(t)].completed

\* the crawl resumed at the stored offset, not after it
StartPageSame(tp, t) ==
    IF tier_key(t) \in DOMAIN tp
    THEN tp[tier_key(t)].last_page
    ELSE FIRST_PAGE

\* every crawl begun at the top, the stored offset not consulted
StartPageTop(tp, t) == FIRST_PAGE

StartPage(tp, t) ==
    IF tier_key(t) \in DOMAIN tp
    THEN tp[tier_key(t)].last_page + 1
    ELSE FIRST_PAGE

-----------------------------------------------------------------------------
(* The process: main(), scrape_tier_guilds() and filter_finnish_guilds()   *)

NoFailure == [t \in Tiers |-> {}]

\* The variables of a process, as they are when no process runs.
MemoryCleared ==
    /\ tier_progress' = <<>>
    /\ all_guilds_data' = <<>>
    /\ unique_guilds' = <<>>
    /\ tier' = END_TIER
    /\ page' = FIRST_PAGE
    /\ all_guilds' = <<>>
    /\ all_unique_guilds' = <<>>
    /\ finnish_guilds' = <<>>
    /\ idx' = 0
    /\ start_page' = FIRST_PAGE
    /\ stopped' = "none"
    /\ requested' = <<>>
    /\ handled' = <<>>
    /\ classified' = <<>>

\* No function is applied on its own.
NoCalc == [fn |-> "none"]

\* The state before the first invocation, whatever is applied on its own.
NoProcess ==
    /\ run = 0
    /\ pc = "idle"
    /\ progressFile = NoFile
    /\ guildsFile = NoFile
    /\ finalFile = NoFile
    /\ tier_progress = <<>>
    /\ all_guilds_data = <<>>
    /\ unique_guilds = <<>>
    /\ tier = END_TIER
    /\ page = FIRST_PAGE
    /\ all_guilds = <<>>
    /\ all_unique_guilds = <<>>
    /\ finnish_guilds = <<>>
    /\ idx = 0
    /\ start_page = FIRST_PAGE
    /\ stopped = "none"
    /\ requested = <<>>
    /\ handled = <<>>
    /\ failedAt = NoFailure
    /\ failures = 0
    /\ classified = <<>>
    /\ unparsable = {}

Init == NoProcess /\ calc = NoCalc

\* a startup that reads an unparsable tier-records file as empty
JsonLoadsProgress(bad) == "progress" \notin bad

\* load_state() of both state files returns: json.load raises on neither.
JsonLoads(bad) == bad = {}

\* main(), up to the tier loop: both state files are loaded.
Start ==
    /\ pc \in {"idle", "done"}
    /\ run < MaxRuns
    /\ JsonLoads(unparsable)
    /\ run' = run + 1
    /\ pc' = "tier"
    /\ tier_progress' = load_state(progressFile)
    /\ all_guilds_data' = load_state(guildsFile)
    /\ unique_guilds' = <<>>
    /\ tier' = END_TIER
    /\ page' = FIRST_PAGE
    /\ all_guilds' = <<>>
    /\ all_unique_guilds' = <<>>
    /\ finnish_guilds' = <<>>
    /\ idx' = 0
    /\ start_page' = FIRST_PAGE
    /\ stopped' = "none"
    /\ requested' = <<>>
    /\ handled' = <<>>
    /\ classified' = <<>>
    /\ UNCHANGED <<progressFile, guildsFile, finalFile, failedAt, failures,
                   calc, unparsable>>

\* main(): a tier whose entry says completed is loaded from the entry.
LoadCompleted ==
    /\ pc = "tier"
    /\ ~LoopDone(tier)
    /\ IsCompleted(all_guilds_data, tier)
    /\ unique_guilds' =
           MergeGuilds(unique_guilds, all_guilds_data[tier_key(tier)].guilds)
    /\ handled' = Append(handled, tier)
    /\ tier' = NextTier(tier)
    /\ UNCHANGED <<run, pc, progressFile, guildsFile, finalFile, tier_progress,
                   all_guilds_data, page, all_guilds, all_unique_guilds,
                   finnish_guilds, idx, start_page, stopped, requested,
                   failedAt, failures>>
    /\ UNCHANGED <<classified, calc, unparsable>>

\* main() determines the start page and enters scrape_tier_guilds().
BeginCrawl ==
    /\ pc = "tier"
    /\ ~LoopDone(tier)
    /\ ~IsCompleted(all_guilds_data, tier)
    /\ pc' = "fetch"
    /\ start_page' = StartPage(tier_progress, tier)
    /\ page' = StartPage(tier_progress, tier)
    /\ all_guilds' = <<>>
    /\ stopped' = "none"
    /\ requested' = <<>>
    /\ UNCHANGED <<run, progressFile, guildsFile, finalFile, tier_progress,
                   all_guilds_data, unique_guilds, tier, all_unique_guilds,
                   finnish_guilds, idx, handled, failedAt, failures>>
    /\ UNCHANGED <<classified, calc, unparsable>>

\* the page's records assigned, not appended
ExtendOverwrites(acc, guilds) == guilds

\* all_guilds.extend(guilds)
Extend(acc, guilds) == acc \o guilds

\* a failed fetch that ends the run
CrawlAborts(why) == IF why = "failed" THEN "aborted" ELSE "store"

\* Where main() goes on when the crawl loop is left by a break.
CrawlReturns(why) == "store"

\* scrape_tier_guilds(): the fetch of the current page fails after its
\* retries and the loop is left.
FetchFails ==
    /\ pc = "fetch"
    /\ failures < MaxFailures
    /\ \E outcomes \in Outcomes : ~fetch_page(outcomes).ok
    /\ pc' = CrawlReturns("failed")
    /\ stopped' = "failed"
    /\ requested' = Append(requested, page)
    /\ failedAt' = [failedAt EXCEPT ![tier] = {[page |-> page, run |-> run]}]
    /\ failures' = failures + 1
    /\ UNCHANGED <<run, progressFile, guildsFile, finalFile, tier_progress,
                   all_guilds_data, unique_guilds, tier, page, all_guilds,
                   all_unique_guilds, finnish_guilds, idx, start_page,
                   handled>>
    /\ UNCHANGED <<classified, calc, unparsable>>

\* scrape_tier_guilds(): the page is fetched, its records are appended and
\* the oracle decides.
FetchSucceeds ==
    /\ pc = "fetch"
    /\ \E outcomes \in Outcomes : fetch_page(outcomes).ok
    /\ LET soup == SitePage(tier, page)
       IN  /\ all_guilds' = Extend(all_guilds, extract_guilds_from_page(soup))
           /\ IF has_mythic_progress(soup)
              THEN pc' = "checkpoint" /\ stopped' = stopped
              ELSE pc' = CrawlReturns("oracle") /\ stopped' = "oracle"
    /\ requested' = Append(requested, page)
    /\ UNCHANGED <<run, progressFile, guildsFile, finalFile, tier_progress,
                   all_guilds_data, unique_guilds, tier, page,
                   all_unique_guilds, finnish_guilds, idx, start_page,
                   handled, failedAt, failures>>
    /\ UNCHANGED <<classified, calc, unparsable>>

\* the offset advanced before the entry is written
ProgressEntryNext(p, guilds) ==
    [last_page |-> p + 1, guilds_count |-> Len(guilds)]

\* The entry scrape_tier_guilds() writes for the page it has done.
ProgressEntry(p, guilds) == [last_page |-> p, guilds_count |-> Len(guilds)]

\* scrape_tier_guilds(): the tier-progress file is read, the tier's entry is
\* set and the file is written; the next page is current.
Checkpoint ==
    /\ pc = "checkpoint"
    /\ progressFile' =
           save_state(DictSet(load_state(progressFile), tier_key(tier),
                              ProgressEntry(page, all_guilds)))
    /\ page' = page + 1
    /\ pc' = "fetch"
    /\ UNCHANGED <<run, guildsFile, finalFile, tier_progress, all_guilds_data,
                   unique_guilds, tier, all_guilds, all_unique_guilds,
                   finnish_guilds, idx, start_page, stopped, requested,
                   handled, failedAt, failures>>
    /\ UNCHANGED <<classified, calc, unparsable>>

\* The entry main() stores for a tier whose crawl has returned.
TierEntry(guilds) == [completed |-> TRUE, guilds |-> guilds]

\* main(): the crawl has returned; the tier's entry is stored, the file is
\* written and the records are merged.
StoreTier ==
    /\ pc = "store"
    /\ all_guilds_data' =
           DictSet(all_guilds_data, tier_key(tier), TierEntry(all_guilds))
    /\ guildsFile' = save_state(all_guilds_data')
    /\ unique_guilds' = MergeGuilds(unique_guilds, all_guilds)
    /\ handled' = Append(handled, tier)
    /\ tier' = NextTier(tier)
    /\ pc' = "tier"
    /\ UNCHANGED <<run, progressFile, finalFile, tier_progress, page,
                   all_guilds, all_unique_guilds, finnish_guilds, idx,
                   start_page, stopped, requested, failedAt, failures>>
    /\ UNCHANGED <<classified, calc, unparsable>>

\* main(): the tier loop is over; filter_finnish_guilds() is entered.
BeginFilter ==
    /\ pc = "tier"
    /\ LoopDone(tier)
    /\ all_unique_guilds' = DictValues(unique_guilds)
    /\ finnish_guilds' = <<>>
    /\ classified' = <<>>
    /\ idx' = 1
    /\ pc' = "filter"
    /\ UNCHANGED <<run, progressFile, guildsFile, finalFile, tier_progress,
                   all_guilds_data, unique_guilds, tier, page, all_guilds,
                   start_page, stopped, requested, handled, failedAt,
                   failures>>
    /\ UNCHANGED <<calc, unparsable>>

\* filter_finnish_guilds(): the final file as a kept match leaves it.
\* a filter that leaves the writing of the final file to the end of the run
IncrementalSaveSkipped(file, found) == file

IncrementalSave(file, found) == save_state(found)

\* filter_finnish_guilds(): the position of the loop after candidate i of n,
\* whether or not its detail page could be fetched.
\* a filter that leaves its loop when a detail page cannot be fetched
AfterCandidateAborts(i, n, fetched) == IF fetched THEN i + 1 ELSE n + 1

AfterCandidate(i, n, fetched) == i + 1

\* filter_finnish_guilds(): one candidate is classified; a match is appended
\* and the final file is written.
FilterStep ==
    /\ pc = "filter"
    /\ idx <= Len(all_unique_guilds)
    /\ \E outcomes \in Outcomes :
          LET fetched  == fetch_page(outcomes)
              guild    == all_unique_guilds[idx]
              language == get_guild_language(guild.url, fetched)
          IN  /\ fetched.ok \/ failures < MaxFailures
              /\ failures' = IF fetched.ok THEN failures ELSE failures + 1
              /\ classified' = Append(classified, language)
              /\ IF IsFinnish(language)
                 THEN /\ finnish_guilds' =
                             Append(finnish_guilds, FinalRecord(guild))
                      /\ finalFile' =
                             IncrementalSave(finalFile, finnish_guilds')
                 ELSE UNCHANGED <<finnish_guilds, finalFile>>
              /\ idx' = AfterCandidate(idx, Len(all_unique_guilds),
                                       fetched.ok)
    /\ UNCHANGED <<run, pc, progressFile, guildsFile, tier_progress,
                   all_guilds_data, unique_guilds, tier, page, all_guilds,
                   all_unique_guilds, start_page, stopped, requested,
                   handled, failedAt, calc, unparsable>>

\* an end of main() that writes the final file only when the pass kept a
\* match
FinalSaveIfAny ==
    /\ pc = "filter"
    /\ idx > Len(all_unique_guilds)
    /\ finalFile' = IF finnish_guilds = <<>> THEN finalFile
                                             ELSE save_state(finnish_guilds)
    /\ pc' = "done"
    /\ UNCHANGED <<run, progressFile, guildsFile, tier_progress,
                   all_guilds_data, unique_guilds, tier, page, all_guilds,
                   all_unique_guilds, finnish_guilds, idx, start_page,
                   stopped, requested, handled, failedAt, failures>>
    /\ UNCHANGED <<classified, calc, unparsable>>

\* main(): the filter has returned; the final results are saved and the
\* process ends.
FinalSave ==
    /\ pc = "filter"
    /\ idx > Len(all_unique_guilds)
    /\ finalFile' = save_state(finnish_guilds)
    /\ pc' = "done"
    /\ UNCHANGED <<run, progressFile, guildsFile, tier_progress,
                   all_guilds_data, unique_guilds, tier, page, all_guilds,
                   all_unique_guilds, finnish_guilds, idx, start_page,
                   stopped, requested, handled, failedAt, failures>>
    /\ UNCHANGED <<classified, calc, unparsable>>

\* The process is terminated from outside, between two of its steps.
Kill ==
    /\ pc \notin {"idle", "done"}
    /\ pc' = "idle"
    /\ MemoryCleared
    /\ UNCHANGED <<run, progressFile, guildsFile, finalFile, failedAt,
                   failures, calc, unparsable>>

Step ==
    \/ LoadCompleted
    \/ BeginCrawl
    \/ FetchFails
    \/ FetchSucceeds
    \/ Checkpoint
    \/ StoreTier
    \/ BeginFilter
    \/ FilterStep
    \/ FinalSave

Next ==
    \/ Start
    \/ Step
    \/ Kill

Spec == Init /\ [][Next]_vars

\* Invocations that are not terminated from outside: the process is
\* sequential and runs on until it ends.
LiveNext ==
    \/ Start
    \/ Step

LiveSpec == Init /\ [][LiveNext]_vars /\ WF_vars(Step)

-----------------------------------------------------------------------------
(* Startup on state files that do not parse.  The text of a state file can *)
(* stop being JSON while no process runs (a write cut short, an edit); the *)
(* record of the file keeps what it held.                                  *)

StateFiles == {"progress", "guilds"}

FileOf(f) == IF f = "progress" THEN progressFile ELSE guildsFile

Garble ==
    /\ pc \in {"idle", "done"}
    /\ \E f \in StateFiles \ unparsable :
          /\ FileOf(f).exists
          /\ unparsable' = unparsable \cup {f}
    /\ UNCHANGED <<run, pc, progressFile, guildsFile, finalFile, tier_progress,
                   all_guilds_data, unique_guilds, tier, page, all_guilds,
                   all_unique_guilds, finnish_guilds, idx, start_page,
                   stopped, requested, handled, failedAt, failures,
                   classified, calc>>

\* main(): json.load raises in load_state() and the process ends.
StartFails ==
    /\ pc \in {"idle", "done"}
    /\ run < MaxRuns
    /\ ~JsonLoads(unparsable)
    /\ run' = run + 1
    /\ pc' = "idle"
    /\ MemoryCleared
    /\ UNCHANGED <<progressFile, guildsFile, finalFile, failedAt, failures,
                   calc, unparsable>>

StartupNext ==
    \/ Start
    \/ StartFails
    \/ Step
    \/ Kill
    \/ Garble

StartupSpec == Init /\ [][StartupNext]_vars

-----------------------------------------------------------------------------
(* Two crawler processes on the same state files, up to the end of their   *)
(* tier loops.  Each has its own locals; a step of a process reads or      *)
(* writes the files at most once, so the read and the write of a           *)
(* checkpoint are two steps.  The site answers every request here: a       *)
(* failed fetch changes what a process writes, not that it writes.         *)

Procs == {1, 2}

IdleProc ==
    [pc |-> "idle", tier |-> END_TIER, page |-> FIRST_PAGE,
     all_guilds |-> <<>>, all_guilds_data |-> <<>>, tier_progress |-> <<>>,
     loaded |-> <<>>]

RaceInit ==
    /\ NoProcess
    /\ calc = [fn |-> "race", procs |-> [p \in Procs |-> IdleProc],
               wrote |-> {}]

Proc(p) == calc.procs[p]

\* The locals of process p become l; what was written is added to the
\* history.
RaceUpdate(p, l, written) ==
    calc' = [calc EXCEPT !.procs[p] = l, !.wrote = @ \cup written]

\* main(), up to the tier loop
RaceStart(p) ==
    /\ Proc(p).pc = "idle"
    /\ RaceUpdate(p, [Proc(p) EXCEPT
                         !.pc = "tier",
                         !.tier_progress = load_state(progressFile),
                         !.all_guilds_data = load_state(guildsFile)], {})
    /\ UNCHANGED procVars

\* main(): the head of the tier loop, up to the call of scrape_tier_guilds()
RaceTier(p) ==
    /\ Proc(p).pc = "tier"
    /\ LET l == Proc(p)
       IN  RaceUpdate(p,
               IF LoopDone(l.tier) THEN [l EXCEPT !.pc = "done"]
               ELSE IF IsCompleted(l.all_guilds_data, l.tier)
               THEN [l EXCEPT !.tier = NextTier(l.tier)]
               ELSE [l EXCEPT !.pc = "fetch",
                              !.page = StartPage(l.tier_progress, l.tier),
                              !.all_guilds = <<>>],
               {})
    /\ UNCHANGED procVars

\* scrape_tier_guilds(): the page is fetched, its records are appended and
\* the oracle decides
RaceFetch(p) ==
    /\ Proc(p).pc = "fetch"
    /\ LET l    == Proc(p)
           soup == SitePage(l.tier, l.page)
       IN  RaceUpdate(p,
               [l EXCEPT
                   !.all_guilds = Extend(@, extract_guilds_from_page(soup)),
                   !.pc = IF has_mythic_progress(soup)
                          THEN "ckload"
                          ELSE CrawlReturns("oracle")],
               {})
    /\ UNCHANGED procVars

\* scrape_tier_guilds(): tier_progress = load_state(TIER_PROGRESS_FILE)
RaceCheckpointLoad(p) ==
    /\ Proc(p).pc = "ckload"
    /\ RaceUpdate(p, [Proc(p) EXCEPT !.pc = "cksave",
                                     !.loaded = load_state(progressFile)], {})
    /\ UNCHANGED procVars

\* scrape_tier_guilds(): the entry is set and the file is written
RaceCheckpointSave(p) ==
    /\ Proc(p).pc = "cksave"
    /\ LET l == Proc(p)
       IN  /\ progressFile' =
                  save_state(DictSet(l.loaded, tier_key(l.tier),
                                     ProgressEntry(l.page, l.all_guilds)))
           /\ RaceUpdate(p, [l EXCEPT !.pc = "fetch", !.page = @ + 1],
                         {[file |-> "progress", key |-> tier_key(l.tier),
                           by |-> p]})
    /\ UNCHANGED <<run, pc, guildsFile, finalFile, tier_progress,
                   all_guilds_data, unique_guilds, tier, page, all_guilds,
                   all_unique_guilds, finnish_guilds, idx, start_page,
                   stopped, requested, handled, failedAt, failures,
                   classified, unparsable>>

\* main(): the tier's entry is stored and the tier-records file is written
RaceStore(p) ==
    /\ Proc(p).pc = "store"
    /\ LET l    == Proc(p)
           data == DictSet(l.all_guilds_data, tier_key(l.tier),
                           TierEntry(l.all_guilds))
       IN  /\ guildsFile' = save_state(data)
           /\ RaceUpdate(p, [l EXCEPT !.pc = "tier",
                                      !.all_guilds_data = data,
                                      !.tier = NextTier(@)],
                         {[file |-> "guilds", key |-> tier_key(l.tier),
                           by |-> p]})
    /\ UNCHANGED <<run, pc, progressFile, finalFile, tier_progress,
                   all_guilds_data, unique_guilds, tier, page, all_guilds,
                   all_unique_guilds, finnish_guilds, idx, start_page,
                   stopped, requested, handled, failedAt, failures,
                   classified, unparsable>>

RaceNext ==
    \E p \in Procs :
        \/ RaceStart(p)
        \/ RaceTier(p)
        \/ RaceFetch(p)
        \/ RaceCheckpointLoad(p)
        \/ RaceCheckpointSave(p)
        \/ RaceStore(p)

RaceSpec == RaceInit /\ [][RaceNext]_vars

-----------------------------------------------------------------------------
(* Functions applied on their own.  Each specification below starts with   *)
(* an input drawn from a bounded set, no process running, and applies the  *)
(* function to it once.                                                    *)

\* All sequences over S of length n, and of length up to n.
RECURSIVE SeqsOfLen(_, _)
SeqsOfLen(S, n) ==
    IF n = 0 THEN {<<>>}
    ELSE {Append(s, x) : s \in SeqsOfLen(S, n - 1), x \in S}

SeqsUpTo(S, n) == UNION {SeqsOfLen(S, k) : k \in 0..n}

\* The spans a listing page is built from: marker in the bold child, in
\* the text only, both markers, none.
spanHM    == Span(<<"(", "H", ")">>, <<"(", "H", ")", "(", "M", ")">>)
spanPlain == Span(<<"8">>, <<"8">>)
SpanKinds == {spanM, spanH, spanNoB, spanHM, spanPlain}

MaxSpans == 3

OracleInit ==
    /\ NoProcess
    /\ calc \in {[fn |-> "oracle", soup |-> Page(<<>>, spans),
                  done |-> FALSE, mythic |-> FALSE, heroic |-> FALSE] :
                    spans \in SeqsUpTo(SpanKinds, MaxSpans)}

\* has_mythic_progress(soup) and has_heroic_progress(soup)
OracleApply ==
    /\ calc.fn = "oracle"
    /\ ~calc.done
    /\ calc' = [calc EXCEPT !.done = TRUE,
                            !.mythic = has_mythic_progress(calc.soup),
                            !.heroic = has_heroic_progress(calc.soup)]
    /\ UNCHANGED procVars

OracleSpec == OracleInit /\ [][OracleApply]_vars

-----------------------------------------------------------------------------
(* extract_guilds_from_page applied to a page *)

RowKinds == {rowAB, rowABx, rowUS, rowHyph, rowNoA, rowNoN, rowNoR, rowNoH}

MaxRows == 3

ExtractInit ==
    /\ NoProcess
    /\ calc \in {[fn |-> "extract", soup |-> Page(rows, <<>>),
                  done |-> FALSE, guilds |-> <<>>] :
                    rows \in SeqsUpTo(RowKinds, MaxRows)}

ExtractApply ==
    /\ calc.fn = "extract"
    /\ ~calc.done
    /\ calc' = [calc EXCEPT !.done = TRUE,
                            !.guilds = extract_guilds_from_page(calc.soup)]
    /\ UNCHANGED procVars

ExtractSpec == ExtractInit /\ [][ExtractApply]_vars

-----------------------------------------------------------------------------
(* get_guild_language applied to a detail page *)

LanguageChars == {"L", ":", " ", "f"}

MaxText == 4

ClassifyInit ==
    /\ NoProcess
    /\ calc \in {[fn |-> "classify", soup |-> DetailPage(ok, text),
                  done |-> FALSE, language |-> None] :
                    ok \in BOOLEAN,
                    text \in SeqsUpTo(LanguageChars, MaxText) \cup {None}}

ClassifyApply ==
    /\ calc.fn = "classify"
    /\ ~calc.done
    /\ calc' = [calc EXCEPT !.done = TRUE, !.language = classify(calc.soup)]
    /\ UNCHANGED procVars

ClassifySpec == ClassifyInit /\ [][ClassifyApply]_vars

-----------------------------------------------------------------------------
(* fetch_page applied to the outcomes of its attempts *)

NotFetched == [ok |-> FALSE, attempts |-> 0, delays |-> <<>>]

FetchInit ==
    /\ NoProcess
    /\ calc \in {[fn |-> "fetch", outcomes |-> outcomes, done |-> FALSE,
                  result |-> NotFetched, cloudscraper |-> NotFetched] :
                    outcomes \in Outcomes}

FetchApply ==
    /\ calc.fn = "fetch"
    /\ ~calc.done
    /\ calc' = [calc EXCEPT
                   !.done = TRUE,
                   !.result = fetch_page(calc.outcomes),
                   !.cloudscraper = fetch_page_cloudscraper(calc.outcomes)]
    /\ UNCHANGED procVars

FetchSpec == FetchInit /\ [][FetchApply]_vars

-----------------------------------------------------------------------------
(* combine_guilds.py *)

\* The code point of a character, for the characters of the names below.
Ord(c) ==
    CASE c = " " -> 32 [] c = "-" -> 45 [] c = "A" -> 65 [] c = "B" -> 66
      [] c = "C" -> 67 [] c = "a" -> 97 [] c = "b" -> 98 [] c = "c" -> 99
      [] c = "d" -> 100 [] c = "|" -> 124
      [] OTHER -> 0

\* s < t for two str: the first differing code point decides, a proper
\* prefix is smaller.
RECURSIVE StrLess(_, _)
StrLess(s, t) ==
    IF t = <<>> THEN FALSE
    ELSE IF s = <<>> THEN TRUE
    ELSE IF Ord(Head(s)) # Ord(Head(t)) THEN Ord(Head(s)) < Ord(Head(t))
    ELSE StrLess(Tail(s), Tail(t))

combine_key(guild) == guild.name \o <<"-">> \o guild.realm

\* if key not in unique_guilds: unique_guilds[key] = guild
FirstWins(od, k, v) ==
    IF \E i \in 1..Len(od) : od[i].key = k
    THEN od
    ELSE Append(od, [key |-> k, value |-> v])

RECURSIVE CombineUnique(_, _)
CombineUnique(od, guilds) ==
    IF guilds = <<>> THEN od
    ELSE CombineUnique(FirstWins(od, combine_key(Head(guilds)), Head(guilds)),
                       Tail(guilds))

\* a sort key that keeps the case of the name
sort_key_exact(guild) == guild.name

\* key=lambda x: x['name'].lower()
sort_key(guild) == lower(guild.name)

\* list.sort is stable: a record goes behind every record whose key is not
\* greater than its own.
InsertSorted(sorted, guild) ==
    LET later == {i \in 1..Len(sorted) :
                      StrLess(sort_key(guild), sort_key(sorted[i]))}
        at    == IF later = {} THEN Len(sorted) + 1
                 ELSE CHOOSE i \in later : \A j \in later : i <= j
    IN  SubSeq(sorted, 1, at - 1) \o <<guild>> \o SubSeq(sorted, at, Len(sorted))

RECURSIVE SortByName(_)
SortByName(guilds) ==
    IF guilds = <<>> THEN <<>>
    ELSE InsertSorted(SortByName(SubSeq(guilds, 1, Len(guilds) - 1)),
                      guilds[Len(guilds)])

combine_guild_files(guilds, guilds_mythic) ==
    LET unique_combined == CombineUnique(<<>>, guilds \o guilds_mythic)
        combined_guilds == SortByName(DictValues(unique_combined))
    IN  [combined |-> combined_guilds,
         removed  |-> Len(guilds) + Len(guilds_mythic) - Len(combined_guilds)]

\* The records of the two input files: one guild with its region in two
\* casings, two guilds whose name and realm hold the hyphen at different
\* places, two names that differ in case only, with different realms.
Guild(name, realm, region) == [name |-> name, realm |-> realm, region |-> region]

cgAB   == Guild(<<"a", "b">>, <<"c">>, <<"E", "U">>)
cgABeu == Guild(<<"a", "b">>, <<"c">>, <<"e", "u">>)
cgHyN  == Guild(<<"a", "-", "b">>, <<"c">>, <<"E", "U">>)
cgHyR  == Guild(<<"a">>, <<"b", "-", "c">>, <<"E", "U">>)
cgB    == Guild(<<"B">>, <<"c">>, <<"E", "U">>)
cgb    == Guild(<<"b">>, <<"d">>, <<"E", "U">>)

CombineGuilds == {cgAB, cgABeu, cgHyN, cgHyR, cgB, cgb}

MaxFile == 2

\* The files a scraper writes: no two records of one file have the same
\* name and realm.
GuildFiles ==
    {f \in SeqsUpTo(CombineGuilds, MaxFile) :
        \A i, j \in 1..Len(f) :
            (f[i].name = f[j].name /\ f[i].realm = f[j].realm) => i = j}

CombineInit ==
    /\ NoProcess
    /\ calc \in {[fn |-> "combine", guilds |-> f, guilds_mythic |-> g,
                  done |-> FALSE, combined |-> <<>>, removed |-> 0] :
                    f \in GuildFiles, g \in GuildFiles}

CombineApply ==
    /\ calc.fn = "combine"
    /\ ~calc.done
    /\ LET out == combine_guild_files(calc.guilds, calc.guilds_mythic)
       IN  calc' = [calc EXCEPT !.done = TRUE,
                                !.combined = out.combined,
                                !.removed = out.removed]
    /\ UNCHANGED procVars

CombineSpec == CombineInit /\ [][CombineApply]_vars

-----------------------------------------------------------------------------
(* The filter pass of an invocation that finds every tier completed: the   *)
(* earlier invocation left a tier-records file whose tier-35 entry holds   *)
(* the records of a listing page, and a final file or none.                *)

\* The records the extractor gives for the rows of the site.
Candidates ==
    {ExtractRow(row)[1] :
        row \in {rowAB, rowABx, rowPipe, rowRlm, rowHyph, rowEmpty}}

MaxCandidates == 2

\* every tier completed, the topmost with the guilds given
CompletedWith(guilds) ==
    [k \in {tier_key(t) : t \in START_TIER..END_TIER} |->
        TierEntry(IF k = tier_key(END_TIER) THEN guilds ELSE <<>>)]

\* what an earlier filter pass can have left: no file, no match, one match
EarlierFinalFiles ==
    {NoFile, save_state(<<>>)}
        \cup {save_state(<<FinalRecord(g)>>) : g \in Candidates}

FilterInit ==
    /\ \E guilds \in SeqsUpTo(Candidates, MaxCandidates) :
          guildsFile = save_state(CompletedWith(guilds))
    /\ finalFile \in EarlierFinalFiles
    /\ calc = [fn |-> "filter", before |-> finalFile]
    /\ run = 1
    /\ pc = "idle"
    /\ progressFile = NoFile
    /\ tier_progress = <<>>
    /\ all_guilds_data = <<>>
    /\ unique_guilds = <<>>
    /\ tier = END_TIER
    /\ page = FIRST_PAGE
    /\ all_guilds = <<>>
    /\ all_unique_guilds = <<>>
    /\ finnish_guilds = <<>>
    /\ idx = 0
    /\ start_page = FIRST_PAGE
    /\ stopped = "none"
    /\ requested = <<>>
    /\ handled = <<>>
    /\ failedAt = NoFailure
    /\ failures = 0
    /\ classified = <<>>
    /\ unparsable = {}

FilterNext ==
    \/ Start
    \/ LoadCompleted
    \/ BeginFilter
    \/ FilterStep
    \/ FinalSave

FilterSpec == FilterInit /\ [][FilterNext]_vars

-----------------------------------------------------------------------------
(* What the files hold, read for the properties below *)

ProgressData == progressFile.data
GuildsData == guildsFile.data

HasProgress(t) == progressFile.exists /\ tier_key(t) \in DOMAIN ProgressData
HasEntry(t) == guildsFile.exists /\ tier_key(t) \in DOMAIN GuildsData

StoredLastPage(t) == ProgressData[tier_key(t)].last_page
StoredCompleted(t) == HasEntry(t) /\ GuildsData[tier_key(t)].completed = TRUE
StoredGuilds(t) == GuildsData[tier_key(t)].guilds

\* The records of the pages at the offsets of a sequence, in that order.
PageRecords(t, offsets) ==
    Flatten([i \in 1..Len(offsets) |->
                extract_guilds_from_page(SitePage(t, offsets[i]))])

\* The offsets an uninterrupted crawl of tier t fetches from offset p on.
RECURSIVE CrawlOffsets(_, _)
CrawlOffsets(t, p) ==
    IF has_mythic_progress(SitePage(t, p))
    THEN <<p>> \o CrawlOffsets(t, p + 1)
    ELSE <<p>>

UninterruptedGuilds(t) == PageRecords(t, CrawlOffsets(t, FIRST_PAGE))

-----------------------------------------------------------------------------
(* C1: a tier none of whose fetches failed is finally stored with the      *)
(* guild list of an uninterrupted crawl of its pages, also when the        *)
(* process was terminated after a checkpoint and a later invocation        *)
(* resumed the tier at the offset after it.                                *)
C1_ResumeReproducesUninterrupted ==
    \A t \in Tiers :
        (StoredCompleted(t) /\ failedAt[t] = {})
            => StoredGuilds(t) = UninterruptedGuilds(t)

(* C2: a tier whose crawl stopped on a failed fetch is not stored with     *)
(* completed = true.                                                       *)
C2_FailedTierNotCompleted ==
    \A t \in Tiers : failedAt[t] # {} => ~StoredCompleted(t)

(* C3: in the invocation after the one in which the fetch of offset p of a *)
(* tier failed, the orchestrator does not pass that tier without crawling  *)
(* it, and the first offset that crawl requested is p.                     *)
C3_FailedTierResumedAtFailedOffset ==
    [][\A f \in (IF tier \in Tiers THEN failedAt[tier] ELSE {}) :
          (f.run + 1 = run /\ handled' = Append(handled, tier))
              => /\ pc = "store"
                 /\ requested # <<>>
                 /\ requested[1] = f.page]_vars

-----------------------------------------------------------------------------
(* C4: once a tier's entry in the tier-records file says completed, the    *)
(* entry stays completed with the same guild list, no crawl of the tier    *)
(* begins and no page of it is requested, and when the orchestrator passes *)
(* the tier it merges the records of the entry.                            *)
C4_CompletedIsTerminal ==
    [][\A t \in Tiers :
          StoredCompleted(t) =>
              /\ StoredCompleted(t)'
              /\ StoredGuilds(t)' = StoredGuilds(t)
              /\ ~(tier = t /\ pc' = "fetch")
              /\ ~(tier = t /\ Len(requested') = Len(requested) + 1)
              /\ (handled' = Append(handled, t) =>
                      /\ requested' = requested
                      /\ pc = "tier"
                      /\ unique_guilds' =
                             MergeGuilds(unique_guilds, StoredGuilds(t)))]_vars

\* A later invocation has passed tier 35, stored with three records, without
\* requesting a page.
C4_Witness ==
    /\ run >= 2
    /\ handled = <<35>>
    /\ requested = <<>>
    /\ StoredCompleted(35)
    /\ Len(StoredGuilds(35)) = 3

(* C5: the last_page stored for a tier never decreases and its entry never *)
(* disappears, and every write of the entry by the crawler stores an       *)
(* offset strictly greater than the one it replaces.                       *)
C5_LastPageOnlyIncreases ==
    [][\A t \in Tiers :
          HasProgress(t) =>
              /\ HasProgress(t)'
              /\ StoredLastPage(t)' >= StoredLastPage(t)
              /\ (tier = t /\ pc = "checkpoint" /\ pc' = "fetch"
                      => StoredLastPage(t)' > StoredLastPage(t))]_vars

\* In a later invocation the entry of tier 35 written by an earlier one has
\* been replaced.
C5_Witness ==
    /\ run >= 2
    /\ tier = 35
    /\ pc = "fetch"
    /\ start_page = 0
    /\ HasProgress(35)
    /\ StoredLastPage(35) = 0

(* C6: the tier-progress file changes only by the checkpoint of the page   *)
(* just fetched with success, for which the oracle answered continue, and  *)
(* only in the entry of the tier crawled; a page after the first page of  *)
(* the tier is requested only when the checkpoint of the page before it is *)
(* in the file; and when a crawl run has stopped on a failed fetch or on   *)
(* the oracle's answer, the stored offset is below the page it stopped on. *)
C6_CheckpointAfterSuccessAndContinue ==
    [][/\ progressFile' # progressFile =>
              /\ pc = "checkpoint"
              /\ stopped = "none"
              /\ requested # <<>>
              /\ requested[Len(requested)] = page
              /\ has_mythic_progress(SitePage(tier, page))
              /\ \A t \in Tiers :
                    IF t = tier
                    THEN HasProgress(t)' /\ StoredLastPage(t)' = page
                    ELSE /\ HasProgress(t)' = HasProgress(t)
                         /\ HasProgress(t) =>
                                ProgressData'[tier_key(t)] =
                                    ProgressData[tier_key(t)]
       /\ (Len(requested') = Len(requested) + 1 /\ requested # <<>>) =>
              requested'[Len(requested')] = requested[Len(requested)] + 1
       /\ (Len(requested') = Len(requested) + 1
               /\ requested'[Len(requested')] > FIRST_PAGE) =>
              \A t \in {tier} :
                  /\ HasProgress(t)
                  /\ StoredLastPage(t) = requested'[Len(requested')] - 1
       /\ (pc = "store" /\ stopped \in {"failed", "oracle"}) =>
              \A t \in {tier} :
                  HasProgress(t) =>
                      StoredLastPage(t) < requested[Len(requested)]]_vars

\* The checkpoint of offset 0 of tier 35 is in the file and offset 1 is about
\* to be requested.
C6_Witness ==
    /\ tier = 35
    /\ pc = "fetch"
    /\ page = 1
    /\ requested = <<-1, 0>>
    /\ HasProgress(35)
    /\ StoredLastPage(35) = 0

(* C7: when the oracle answers do-not-continue for a page, the crawl run   *)
(* ends with that page as the last one requested, and the next step of the *)
(* process requests nothing and stores the tier as completed with the      *)
(* records of the pages requested in the run, in page order.               *)
C7_OracleStopCompletesTier ==
    [][/\ (stopped' = "oracle" /\ stopped # "oracle") =>
              /\ pc' = "store"
              /\ requested' = Append(requested, page)
              /\ ~has_mythic_progress(SitePage(tier, page))
       /\ (pc = "store" /\ stopped = "oracle" /\ pc' # "idle") =>
              /\ requested' = requested
              /\ \A t \in {tier} :
                    /\ handled' = Append(handled, t)
                    /\ StoredCompleted(t)'
                    /\ StoredGuilds(t)' = PageRecords(t, requested)]_vars

\* Tier 35 has been stored after the oracle stopped its crawl on the third
\* page.
C7_Witness ==
    /\ stopped = "oracle"
    /\ handled = <<35>>
    /\ requested = <<-1, 0, 1>>
    /\ StoredCompleted(35)
    /\ Len(StoredGuilds(35)) = 3

\* The tiers from 35 downwards, n of them.
Descending(n) == [i \in 1..n |-> 36 - i]

(* C8: the tiers an invocation has handled are 35, 34, ... in descending   *)
(* order without gap or repeat, and the language filter runs only when all *)
(* fourteen tiers down to 22 have been handled.                            *)
C8_TiersDescendingOnce ==
    /\ handled = Descending(Len(handled))
    /\ Len(handled) <= 14
    /\ (pc \in {"filter", "done"} \/ idx > 0) =>
           /\ Len(handled) = 14
           /\ handled[14] = 22

\* The filter is about to classify its first candidate.
C8_Witness ==
    /\ pc = "filter"
    /\ idx = 1
    /\ Len(all_unique_guilds) > 0
    /\ handled = Descending(14)

(* C9: after a fetch failure has stopped a tier, an invocation that is not *)
(* terminated from outside goes on to its end, where all fourteen tiers    *)
(* have been handled, the filter has classified every candidate and the    *)
(* final file holds the filter's result.                                   *)
C9_FailureDoesNotStopRun ==
    (stopped = "failed" /\ pc # "done")
        ~> /\ pc = "done"
           /\ handled = Descending(14)
           /\ idx = Len(all_unique_guilds) + 1
           /\ finalFile.exists
           /\ finalFile.data = finnish_guilds

\* An invocation in which the fetch of a page of tier 35 failed has ended.
C9_Witness ==
    /\ pc = "done"
    /\ \E f \in failedAt[35] : f.run = run
    /\ handled = Descending(14)
    /\ finalFile.exists
    /\ Len(finalFile.data) > 0

SameIdentity(g, h) == g.name = h.name /\ g.realm = h.realm

\* The stored guild lists of all tiers in processing order.
Processed == Flatten([i \in 1..14 |-> StoredGuilds(36 - i)])

LastOccurrence(gs, g) ==
    gs[CHOOSE i \in 1..Len(gs) :
           /\ SameIdentity(gs[i], g)
           /\ \A j \in (i + 1)..Len(gs) : ~SameIdentity(gs[j], g)]

(* C10: the merged candidate set holds, for every (name, realm) that       *)
(* occurs in a tier's guild list, exactly one record, the last occurrence  *)
(* in processing order, and nothing else.                                  *)
C10_MergedSetLastWins ==
    pc = "filter" =>
        /\ \A i \in 1..Len(Processed) :
              \E j \in 1..Len(all_unique_guilds) :
                  /\ all_unique_guilds[j] = LastOccurrence(Processed, Processed[i])
                  /\ \A k \in 1..Len(all_unique_guilds) :
                        SameIdentity(all_unique_guilds[k], Processed[i]) => k = j
        /\ \A j \in 1..Len(all_unique_guilds) :
              \E i \in 1..Len(Processed) : all_unique_guilds[j] = Processed[i]

-----------------------------------------------------------------------------
(* Language Filter: properties *)

Finnish == <<"f", "i", "n", "n", "i", "s", "h">>

\* a returned language that equals the target, whatever its case
EqualsFinnish(language) ==
    /\ language # None
    /\ Len(language) = Len(Finnish)
    /\ \A i \in 1..Len(Finnish) : LowerChar(language[i]) = Finnish[i]

Reduced(g) == [name |-> g.name, realm |-> g.realm, region |-> g.region]

\* The candidates among the first n whose returned language equals the
\* target, in candidate order, each reduced to name, realm and region.
RECURSIVE KeptOf(_, _, _)
KeptOf(candidates, languages, n) ==
    IF n = 0 THEN <<>>
    ELSE KeptOf(candidates, languages, n - 1)
             \o (IF EqualsFinnish(languages[n])
                 THEN <<Reduced(candidates[n])>>
                 ELSE <<>>)

(* C11: the result of the language filter is the sub-sequence of the       *)
(* candidates whose returned language equals 'finnish' whatever its case,  *)
(* in candidate order, each reduced to name, realm and region; a candidate *)
(* whose language is absent or empty is never kept.                        *)
C11_FilterKeepsFinnishInOrder ==
    pc \in {"filter", "done"} =>
        /\ Len(classified) <= Len(all_unique_guilds)
        /\ finnish_guilds =
               KeptOf(all_unique_guilds, classified, Len(classified))
        /\ \A i \in 1..Len(classified) :
              classified[i] \in {None, <<>>} =>
                  \A j \in 1..Len(finnish_guilds) :
                      finnish_guilds[j] # Reduced(all_unique_guilds[i])
        /\ pc = "done" => Len(classified) = Len(all_unique_guilds)

\* a finished pass that kept a match written in capitals and one in lower
\* case, and passed over an empty and an absent language
C11_Witness ==
    /\ pc = "done"
    /\ Len(finnish_guilds) >= 2
    /\ \E i \in 1..Len(classified) : classified[i] = <<>>
    /\ \E i \in 1..Len(classified) : classified[i] = None
    /\ \E i \in 1..Len(classified) :
          classified[i] = <<"F", "I", "N", "N", "I", "S", "H">>
    /\ \E i \in 1..Len(classified) : classified[i] = Finnish

IsPrefix(s, t) == Len(s) <= Len(t) /\ SubSeq(t, 1, Len(s)) = s

\* The records of the candidates whose positions are in the set keep, in
\* candidate order.
RECURSIVE Picked(_, _, _)
Picked(candidates, keep, n) ==
    IF n = 0 THEN <<>>
    ELSE Picked(candidates, keep, n - 1)
             \o (IF n \in keep THEN <<Reduced(candidates[n])>> ELSE <<>>)

\* The results the current pass can still end with: the matches so far,
\* followed by any of the candidates not yet classified.
Completions ==
    {finnish_guilds \o Picked(all_unique_guilds, keep, Len(all_unique_guilds)) :
        keep \in SUBSET (idx .. Len(all_unique_guilds))}

(* C12, as stated: whenever the process can be terminated between two      *)
(* candidates of a filter pass, the final-output file it leaves is a       *)
(* prefix of the pass's complete result.                                   *)
C12_KilledFileIsPrefix ==
    (pc = "filter" /\ finalFile.exists) =>
        \E result \in Completions : IsPrefix(finalFile.data, result)

(* C12, amended: in a filter pass that has kept at least one match, the    *)
(* final-output file holds exactly the matches found so far, in order,     *)
(* from the moment the match is kept until the next one is; the matches    *)
(* only grow, so the file is a prefix of the pass's result, and            *)
(* terminating the process leaves the file as it is.                       *)
C12_FileHoldsMatchesSoFar ==
    [][(pc = "filter" /\ finnish_guilds # <<>>) =>
          /\ finalFile = [exists |-> TRUE, data |-> finnish_guilds]
          /\ pc' \in {"filter", "done"} =>
                /\ IsPrefix(finnish_guilds, finnish_guilds')
                /\ finalFile' = [exists |-> TRUE, data |-> finnish_guilds']
          /\ pc' = "idle" => finalFile' = finalFile]_vars

\* between two candidates, after the second match of the pass
C12_Witness ==
    /\ pc = "filter"
    /\ Len(finnish_guilds) = 2
    /\ idx <= Len(all_unique_guilds)
    /\ finalFile = [exists |-> TRUE, data |-> finnish_guilds]

(* C13: in a filter pass, a candidate whose detail page cannot be fetched  *)
(* is no match and nothing more: the step classifies that one candidate,   *)
(* keeps the matches collected so far and goes on to the next candidate;   *)
(* candidates are classified one per step in order, each once, and the     *)
(* pass ends only when every candidate has been classified.                *)
C13_FailureIsNoMatchOnly ==
    [][pc = "filter" =>
          /\ Len(classified) = idx - 1
          /\ pc' = "filter" =>
                /\ idx <= Len(all_unique_guilds)
                /\ idx' = idx + 1
                /\ all_unique_guilds' = all_unique_guilds
                /\ Len(classified') = Len(classified) + 1
                /\ SubSeq(classified', 1, Len(classified)) = classified
                /\ IsPrefix(finnish_guilds, finnish_guilds')
          /\ failures' > failures =>
                /\ pc' = "filter"
                /\ classified' = Append(classified, None)
                /\ finnish_guilds' = finnish_guilds
          /\ pc' = "done" =>
                /\ Len(classified) = Len(all_unique_guilds)
                /\ finnish_guilds' = finnish_guilds]_vars

\* a finished pass in which the detail page of a candidate that the site
\* lists as Finnish was not fetched, after one match and before the
\* classification of the last candidate
C13_Witness ==
    /\ pc = "done"
    /\ Len(classified) = Len(all_unique_guilds)
    /\ \E i \in 2..(Len(classified) - 1) :
          /\ all_unique_guilds[i].url = "/g5"
          /\ classified[i] = None
          /\ \E j \in 1..(i - 1) : EqualsFinnish(classified[j])
    /\ classified[Len(classified)] = <<>>
    /\ Len(finnish_guilds) = 1

-----------------------------------------------------------------------------
(* Termination Oracle: properties *)

OracleAnswered == calc.fn = "oracle" /\ calc.done

LastSpan == calc.soup.spans[Len(calc.soup.spans)]

(* C14, as stated: the oracle answers 'do not continue' for a page without *)
(* progress spans, and otherwise 'continue' iff the last span carries the  *)
(* difficulty marker, anywhere in the span.                                *)
C14_LastSpanCarriesMarker ==
    OracleAnswered =>
        /\ calc.mythic = (/\ calc.soup.spans # <<>>
                          /\ HasSubstr(LastSpan.text, <<"(", "M", ")">>))
        /\ calc.heroic = (/\ calc.soup.spans # <<>>
                          /\ HasSubstr(LastSpan.text, <<"(", "H", ")">>))

(* C14, amended: the oracle answers 'do not continue' for a page without   *)
(* progress spans; otherwise its answer depends only on the last span,     *)
(* whatever the earlier spans carry: the mythic oracle answers 'continue'  *)
(* iff the last span has a bold child and the first bold child's text      *)
(* holds the marker, the heroic oracle iff the last span's text holds it.  *)
C14_OracleReadsLastSpanOnly ==
    OracleAnswered =>
        /\ calc.soup.spans = <<>> => ~calc.mythic /\ ~calc.heroic
        /\ calc.soup.spans # <<>> =>
              /\ calc.mythic = (/\ LastSpan.b # None
                                /\ HasSubstr(LastSpan.b, <<"(", "M", ")">>))
              /\ calc.heroic = HasSubstr(LastSpan.text, <<"(", "H", ")">>)
              /\ \A earlier \in SeqsUpTo(SpanKinds, MaxSpans - 1) :
                    LET other == Page(<<>>, Append(earlier, LastSpan))
                    IN  /\ has_mythic_progress(other) = calc.mythic
                        /\ has_heroic_progress(other) = calc.heroic

\* the first span carries the mythic marker and the last one lacks it
C14_Witness ==
    /\ OracleAnswered
    /\ calc.soup.spans = <<spanM, spanH>>
    /\ ~calc.mythic
    /\ calc.heroic

-----------------------------------------------------------------------------
(* Combine tool: properties *)

Combined == calc.fn = "combine" /\ calc.done

\* The records of the first file, then those of the second.
Concatenation == calc.guilds \o calc.guilds_mythic

FirstOccurrence(gs, g) ==
    gs[CHOOSE i \in 1..Len(gs) :
           /\ SameIdentity(gs[i], g)
           /\ \A j \in 1..(i - 1) : ~SameIdentity(gs[j], g)]

(* C15: the combined output holds exactly one record for every (name,      *)
(* realm) of the two input files, namely its first occurrence in the       *)
(* first file followed by the second, and nothing else; the number of      *)
(* removed duplicates is the two input counts minus the output count.      *)
C15_OneRecordPerNameRealm ==
    Combined =>
        /\ \A i \in 1..Len(Concatenation) :
              \E j \in 1..Len(calc.combined) :
                  /\ calc.combined[j] =
                         FirstOccurrence(Concatenation, Concatenation[i])
                  /\ \A k \in 1..Len(calc.combined) :
                        SameIdentity(calc.combined[k], Concatenation[i])
                            => k = j
        /\ \A j \in 1..Len(calc.combined) :
              \E i \in 1..Len(Concatenation) :
                  calc.combined[j] = Concatenation[i]
        /\ calc.removed =
               Len(calc.guilds) + Len(calc.guilds_mythic) - Len(calc.combined)

\* The place of a record's first occurrence in the inputs.
FirstPlace(g) ==
    CHOOSE i \in 1..Len(Concatenation) :
        /\ Concatenation[i] = g
        /\ \A j \in 1..(i - 1) : Concatenation[j] # g

(* C16: the combined output is in non-decreasing order of the lower-cased  *)
(* name, and records whose lower-cased names are equal stand in the order  *)
(* of their first occurrence in the inputs.                                *)
C16_SortedByLowerName ==
    Combined =>
        \A i, j \in 1..Len(calc.combined) :
            i < j =>
                LET a == lower(calc.combined[i].name)
                    b == lower(calc.combined[j].name)
                IN  /\ ~StrLess(b, a)
                    /\ a = b => FirstPlace(calc.combined[i])
                                    < FirstPlace(calc.combined[j])

\* 'ab', last in the inputs, is put first; 'B' and 'b', equal in lower
\* case, stay in the order of the first file
C16_Witness ==
    /\ Combined
    /\ calc.guilds = <<cgB, cgb>>
    /\ calc.guilds_mythic = <<cgb, cgAB>>
    /\ calc.combined = <<cgAB, cgB, cgb>>

-----------------------------------------------------------------------------
(* Row Extractor: properties *)

Extracted == calc.fn = "extract" /\ calc.done

\* The place of the first hyphen of a text that has one.
FirstHyphen(text) ==
    CHOOSE h \in 1..Len(text) :
        text[h] = "-" /\ \A k \in 1..(h - 1) : text[k] # "-"

RegionOf(text) == strip(SubSeq(text, 1, FirstHyphen(text) - 1))
RealmOf(text) == strip(SubSeq(text, FirstHyphen(text) + 1, Len(text)))

\* a well-formed row (guild anchor with its nobr, realm anchor) whose realm
\* text holds a hyphen and whose region is EU in any case
ValidRow(row) ==
    /\ row.guild
    /\ row.nobr # None
    /\ row.realm # None
    /\ \E h \in 1..Len(row.realm) : row.realm[h] = "-"
    /\ LET region == RegionOf(row.realm)
       IN  /\ Len(region) = 2
           /\ region[1] \in {"E", "e"}
           /\ region[2] \in {"U", "u"}

RECURSIVE RecordsOf(_, _)
RecordsOf(rows, n) ==
    IF n = 0 THEN <<>>
    ELSE RecordsOf(rows, n - 1)
             \o (IF ValidRow(rows[n])
                 THEN <<[name   |-> strip(rows[n].nobr),
                         realm  |-> RealmOf(rows[n].realm),
                         region |-> RegionOf(rows[n].realm),
                         url    |-> rows[n].href]>>
                 ELSE <<>>)

(* C17: the extractor returns one record for every valid row (guild        *)
(* anchor, realm anchor whose text contains a hyphen, region EU in any     *)
(* case), in document order, with region and realm the trimmed parts       *)
(* before and after the first hyphen; a row that is malformed (a guild     *)
(* anchor without its nobr), lacks an anchor, lacks a hyphen or has        *)
(* another region contributes nothing and leaves the records of the other  *)
(* rows as they are.                                                       *)
C17_OneRecordPerValidRow ==
    Extracted =>
        calc.guilds = RecordsOf(calc.soup.rows, Len(calc.soup.rows))

\* two valid rows with a malformed row between them: a region in lower
\* case with blanks around the hyphen, and a realm that holds a hyphen
C17_Witness ==
    /\ Extracted
    /\ calc.soup.rows = <<rowABx, rowNoN, rowHyph>>
    /\ Len(calc.guilds) = 2
    /\ calc.guilds[1].region = <<"e", "u">>
    /\ calc.guilds[2].realm = <<"a", "-", "b">>

-----------------------------------------------------------------------------
(* Classifier: properties *)

Classified == calc.fn = "classify" /\ calc.done

HasColon(text) == \E h \in 1..Len(text) : text[h] = ":"

\* The text behind the first colon of a text that has one.
AfterFirstColon(text) ==
    LET h == CHOOSE h \in 1..Len(text) :
                 text[h] = ":" /\ \A k \in 1..(h - 1) : text[k] # ":"
    IN  SubSeq(text, h + 1, Len(text))

\* r is v without the whitespace around it.
IsTrimmed(r, v) ==
    /\ r = <<>> \/ (r[1] # " " /\ r[Len(r)] # " ")
    /\ \E i \in 0..Len(v) :
          /\ i + Len(r) <= Len(v)
          /\ SubSeq(v, i + 1, i + Len(r)) = r
          /\ \A k \in (1..i) \cup ((i + Len(r) + 1)..Len(v)) : v[k] = " "

(* C18: the classifier returns the text behind the first colon of the      *)
(* language field without the whitespace around it, whatever the spacing   *)
(* around the colon and also when that text holds a colon itself; it       *)
(* returns absent when the page could not be fetched, the field is missing *)
(* or the field holds no colon.                                            *)
C18_TrimmedValueAfterFirstColon ==
    Classified =>
        LET text == calc.soup.language
        IN  IF ~calc.soup.ok \/ text = None THEN calc.language = None
            ELSE IF ~HasColon(text) THEN calc.language = None
            ELSE /\ calc.language # None
                 /\ IsTrimmed(calc.language, AfterFirstColon(text))

\* blanks behind the first colon, and a second colon in the value
C18_Witness ==
    /\ Classified
    /\ calc.soup = DetailPage(TRUE, <<":", " ", ":", "f">>)
    /\ calc.language = <<":", "f">>

-----------------------------------------------------------------------------
(* Checkpoint store: round trip of a tier in progress *)

StoredCount(t) == ProgressData[tier_key(t)].guilds_count

(* C19: a process that is about to fetch the page behind the stored        *)
(* lastPageOffset of a tier that is not completed, whether it wrote the    *)
(* checkpoint itself or reloaded it in a new invocation, holds the tier    *)
(* state the checkpoint was written from: not completed, that offset, and  *)
(* the guild list accumulated up to it with as many records as the         *)
(* checkpoint counts.                                                      *)
C19_InProgressTierRoundTrip ==
    (/\ pc = "fetch"
     /\ HasProgress(tier)
     /\ ~StoredCompleted(tier)
     /\ page = StoredLastPage(tier) + 1)
        => Len(all_guilds) = StoredCount(tier)

-----------------------------------------------------------------------------
(* Page Fetcher: properties *)

Fetched == calc.fn = "fetch" /\ calc.done

\* What the claim says of one answer of the fetcher.
BoundedRetry(result) ==
    /\ result.attempts \in 1..RETRY_COUNT
    /\ result.ok <=> \E a \in 1..RETRY_COUNT : calc.outcomes[a] = "ok"
    /\ result.ok =>
          /\ calc.outcomes[result.attempts] = "ok"
          /\ \A a \in 1..(result.attempts - 1) : calc.outcomes[a] # "ok"
    /\ ~result.ok => result.attempts = RETRY_COUNT

(* C20: fetch_page ends after at most retry_count (3) attempts: it returns *)
(* the page at the first attempt that succeeds and makes no attempt after  *)
(* it, and it returns failure iff every one of the 3 attempts failed, for  *)
(* every mix of 403, other HTTP and other failures (both variants).        *)
C20_BoundedRetry ==
    Fetched => BoundedRetry(calc.result) /\ BoundedRetry(calc.cloudscraper)

\* an HTTP error, then a 403, then the page
C20_Witness ==
    /\ Fetched
    /\ calc.outcomes = <<"http", "403", "ok">>
    /\ calc.result.ok
    /\ calc.result.attempts = 3
    /\ calc.cloudscraper.ok

(* C21: in fetch_page there is a delay between any two consecutive         *)
(* attempts, each such delay is strictly longer than the one before it     *)
(* whatever the failures were, and at the same attempt a 403 waits longer  *)
(* than any other failure.                                                 *)
C21_IncreasingBackoff ==
    Fetched =>
        /\ \A k \in 1..(calc.result.attempts - 1) : calc.result.delays[k] > 0
        /\ \A k \in 1..(calc.result.attempts - 2) :
              calc.result.delays[k + 1] > calc.result.delays[k]
        /\ \A a \in 0..(RETRY_COUNT - 2) :
              \A other \in {"http", "error"} :
                  BackoffDelay("403", a) > BackoffDelay(other, a)

-----------------------------------------------------------------------------
(* Crawl runs: the offsets requested *)

InCrawl == pc \in {"fetch", "checkpoint", "store"}

(* C22: within one crawl run of a tier the offsets requested are start,    *)
(* start + 1, start + 2, ... without gap or repeat, where start is -1 when *)
(* the tier-progress file has no entry for the tier as the run begins and  *)
(* the stored last_page + 1 otherwise.                                     *)
C22_ConsecutiveOffsets ==
    [][/\ (pc = "tier" /\ pc' = "fetch") =>
              /\ requested' = <<>>
              /\ \A t \in {tier} :
                    start_page' = IF HasProgress(t)
                                  THEN StoredLastPage(t) + 1
                                  ELSE -1
       /\ InCrawl =>
              /\ \A i \in 1..Len(requested) :
                    requested[i] = start_page + i - 1
              /\ (InCrawl' /\ requested' # requested) =>
                    requested' =
                        Append(requested, start_page + Len(requested))]_vars

\* a run resumed behind the stored offset -1 that has requested two pages
C22_Witness ==
    /\ run = 2
    /\ tier = 35
    /\ InCrawl
    /\ start_page = 0
    /\ requested = <<0, 1>>

-----------------------------------------------------------------------------
(* Startup: properties *)

(* C23: when the tier-progress file or the tier-records file does not      *)
(* parse at startup, the invocation ends at once: no page is requested, no *)
(* state file is written, and the unparsable file and the other files are  *)
(* as they were; no process runs while a state file does not parse.        *)
C23_UnparsableStateIsFatal ==
    [][/\ unparsable # {} =>
              /\ pc \in {"idle", "done"}
              /\ pc' \in {"idle", "done"}
              /\ progressFile' = progressFile
              /\ guildsFile' = guildsFile
              /\ finalFile' = finalFile
              /\ unparsable \subseteq unparsable'
       /\ (unparsable # {} /\ run' = run + 1) =>
              /\ pc' = "idle"
              /\ requested' = <<>>
              /\ failures' = failures
              /\ unparsable' = unparsable]_vars

\* the second invocation has ended at startup on an unparsable tier-records
\* file, with the checkpoint of tier 35 and the final file as they were left
C23_Witness ==
    /\ run = 2
    /\ pc = "idle"
    /\ unparsable = {"guilds"}
    /\ HasProgress(35)
    /\ finalFile.exists

(***************************************************************************)
(* Two processes: properties                                               *)
(***************************************************************************)

\* the entry that a process wrote is in its state file
Held(e) == e.key \in DOMAIN load_state(FileOf(e.file))

\* the copy of the file's dict from which process p writes the file
CopyOf(p, file) ==
    IF file = "progress" THEN Proc(p).loaded ELSE Proc(p).all_guilds_data

\* process p is about to write the file from a copy that lacks the entry
StaleWrite(p, e) ==
    /\ Proc(p).pc = (IF e.file = "progress" THEN "cksave" ELSE "store")
    /\ e.key \notin DOMAIN CopyOf(p, e.file)

\* both processes have written the file
BothWrote(file) ==
    \A p \in Procs : \E w \in calc.wrote : w.file = file /\ w.by = p

\* an entry that was written is no longer in the file
Lost(file) == \E e \in calc.wrote : e.file = file /\ ~Held(e)

(* C24: with two crawler processes on the same state files there is an     *)
(* interleaving in which an entry of the tier-progress file or of the      *)
(* tier-records file written by one process is lost to a write of the      *)
(* other.  An entry leaves its file only in a step that writes the file    *)
(* from a copy lacking the entry, and no entry is lost from a file that    *)
(* only one process has written.                                           *)
C24_LostToStaleWriteOfOther ==
    /\ [](\A file \in StateFiles : Lost(file) => BothWrote(file))
    /\ [][\A e \in calc.wrote :
              (Held(e) /\ ~Held(e)') =>
                  \E p \in Procs :
                      /\ StaleWrite(p, e)
                      /\ calc'.procs[p] # calc.procs[p]]_vars

\* an entry of each state file, written by one process, has been lost to a
\* write of the other
C24_Witness ==
    /\ \E e \in calc.wrote :
           /\ e = [file |-> "progress", key |-> "34", by |-> 1]
           /\ ~Held(e)
    /\ \E e \in calc.wrote :
           /\ e = [file |-> "guilds", key |-> "34", by |-> 1]
           /\ ~Held(e)
    /\ \A w \in calc.wrote : w.by = 2 => w.key = "35"

-----------------------------------------------------------------------------
(* Deduplication keys: properties *)

\* a record of the same name and realm as g is in the list
Survives(gs, g) == \E k \in 1..Len(gs) : SameIdentity(gs[k], g)

(* C25: two records of the combine tool's inputs that differ in name or in  *)
(* realm get different keys, and a record of each name and realm is in the *)
(* combined output, also when a name or a realm holds the separator.       *)
C25_DistinctPairsGetDistinctKeys ==
    Combined =>
        \A i, j \in 1..Len(Concatenation) :
            ~SameIdentity(Concatenation[i], Concatenation[j]) =>
                /\ combine_key(Concatenation[i]) # combine_key(Concatenation[j])
                /\ Survives(calc.combined, Concatenation[i])
                /\ Survives(calc.combined, Concatenation[j])

-----------------------------------------------------------------------------
(* State Store: frame of a tier's crawl *)

\* the entry of tier t in a state file: a one-element sequence, or empty
EntryOf(file, t) ==
    IF file.exists /\ tier_key(t) \in DOMAIN file.data
    THEN <<file.data[tier_key(t)]>>
    ELSE <<>>

(* C26: a step of the process changes, in the tier-progress file and in    *)
(* the tier-records file, no entry but that of the tier it is crawling:    *)
(* every page checkpoint and the completion write leave the entries of     *)
(* all other tiers in both files as they were.                             *)
C26_OnlyCrawledTierChanges ==
    [][\A t \in START_TIER..END_TIER :
           t # tier =>
               /\ EntryOf(progressFile, t)' = EntryOf(progressFile, t)
               /\ EntryOf(guildsFile, t)' = EntryOf(guildsFile, t)]_vars

\* tier 34 has been checkpointed and completed in a second invocation, with
\* the entries of tier 35 in both files
C26_Witness ==
    /\ run = 2
    /\ tier = 33
    /\ HasProgress(35) /\ HasProgress(34)
    /\ HasEntry(35) /\ HasEntry(34)
    /\ pc = "tier"

-----------------------------------------------------------------------------
(* Final save: properties *)

(* C27: when an invocation has run to completion, the final file exists    *)
(* and holds exactly the matches of that invocation's filter pass: the     *)
(* candidates whose language equals 'finnish', in candidate order, and the *)
(* empty list when there was none, whatever the file held before.          *)
C27_FinalFileIsThisPassResult ==
    pc = "done" =>
        /\ Len(classified) = Len(all_unique_guilds)
        /\ finalFile =
               [exists |-> TRUE,
                data |-> KeptOf(all_unique_guilds, classified,
                                Len(all_unique_guilds))]

\* an invocation with two candidates has run to completion without a match
\* and a failure, and the match an earlier invocation left in the final
\* file is gone
C27_Witness ==
    /\ pc = "done"
    /\ calc.before.exists
    /\ Len(calc.before.data) = 1
    /\ Len(all_unique_guilds) = 2
    /\ failures = 0
    /\ finalFile = [exists |-> TRUE, data |-> <<>>]

====
